---------------------------- MODULE Spec2Model ----------------------------
(***************************************************************************)
(* A model of codespaces.py: the command that lists a user's GitHub        *)
(* codespaces.  main resolves a token, sends one GET, filters the records, *)
(* sorts them by expiration and renders them as a table or as JSON.        *)
(*                                                                         *)
(* Python values are modelled as follows.                                  *)
(*   Optional[T]   : <<>> for None, <<x>> for the value x.                 *)
(*   str that the code inspects (repository name, state, the --repo and    *)
(*                   --state options): a sequence of one-character strings.*)
(*   str that the code only passes on or builds (tokens, labels, colours)  *)
(*                 : a TLA+ string.                                        *)
(*   an ISO-8601 timestamp text: [wall, tz], the date and time it spells   *)
(*                   (counted in seconds) and its zone designator.         *)
(*   an aware datetime: [wall, utcoffset].                                 *)
(*   the clock (datetime.now(timezone.utc)): an instant in seconds.  The   *)
(*                   code's sub-second part is floored the same way by     *)
(*                   timedelta, so the second is the model's tick.         *)
(***************************************************************************)
EXTENDS Integers, Sequences, FiniteSets, TLC

VARIABLES
    pc,                  \* main's position: get_token, fetch, check_empty, filter, sort, render, exited
    token,               \* --token option (Optional[str])
    env_token,           \* os.getenv("GITHUB_TOKEN") after load_dotenv (Optional[str])
    days,                \* --days option (Optional[int])
    repo,                \* --repo option (Optional[str])
    state,               \* --state option (Optional[str])
    json_output,         \* --json flag
    now,                 \* the latest reading of the clock
    github_token,        \* main's github_token (Optional[str], None before it is resolved)
    requests,            \* number of requests.get calls made
    response,            \* how the request ended: "none", "ok", "http_error", "request_exception"
    codespaces,          \* main's codespaces list
    filtered_codespaces, \* main's filtered_codespaces list
    printed,             \* what was written to the console, in order
    exit_code,           \* the process exit status (Optional[int], None while running)
    trace                \* the steps main has run, in order

vars == <<pc, token, env_token, days, repo, state, json_output, now, github_token,
          requests, response, codespaces, filtered_codespaces, printed, exit_code, trace>>

-----------------------------------------------------------------------------
(* Bounds of the model *)

\* the calendar of the model holds the days 0..MaxDay (Python's holds the years 1..9999)
MaxDay == 16
\* longest list of codespaces the API returns in the model
MaxLen == 2
\* longest list handed to the sort in the sort specification
MaxSortLen == 3
\* the clock advances by at most MaxTick seconds between two readings
MaxTick == 1

-----------------------------------------------------------------------------
(* Optional values and truthiness *)

None == <<>>
Some(x) == <<x>>

\* Python's truth value of an Optional[str]: None and the empty string are false
Truthy(o) == o # None /\ Len(o[1]) > 0

-----------------------------------------------------------------------------
(* Strings *)

UpperCase == <<"A","B","C","D","E","F","G","H","I","J","K","L","M",
               "N","O","P","Q","R","S","T","U","V","W","X","Y","Z">>
LowerCase == <<"a","b","c","d","e","f","g","h","i","j","k","l","m",
               "n","o","p","q","r","s","t","u","v","w","x","y","z">>

\* the lower-case letter of each upper-case letter
LowerOf ==
    [c \in { UpperCase[i] : i \in 1..Len(UpperCase) } |->
        LowerCase[CHOOSE i \in 1..Len(UpperCase) : UpperCase[i] = c]]

LowerChar(c) == IF c \in DOMAIN LowerOf THEN LowerOf[c] ELSE c

\* str.lower()
lower(s) == [i \in 1..Len(s) |-> LowerChar(s[i])]

\* Python's `sub in s` on strings
Contains(sub, s) ==
    \E i \in 1..(Len(s) - Len(sub) + 1) : SubSeq(s, i, i + Len(sub) - 1) = sub

Digit == <<"0","1","2","3","4","5","6","7","8","9">>

\* the decimal text an f-string gives a non-negative int
RECURSIVE Str(_)
Str(n) == IF n < 10 THEN Digit[n + 1] ELSE Str(n \div 10) \o Digit[(n % 10) + 1]

-----------------------------------------------------------------------------
(* Time *)

SecondsPerDay == 86400
SecondsPerHour == 3600
SecondsPerMinute == 60
RedBelowDays == 7
YellowBelowDays == 14

\* the zone designators of the model and the offset each one spells
Zones == {"Z", "+00:00", "+01:00", "-01:00"}
ZoneOffset(tz) == CASE tz = "+01:00" -> SecondsPerHour
                    [] tz = "-01:00" -> -SecondsPerHour
                    [] OTHER -> 0
OffsetZone(off) == CASE off = SecondsPerHour -> "+01:00"
                     [] off = -SecondsPerHour -> "-01:00"
                     [] OTHER -> "+00:00"

\* the largest date and time the calendar holds: 23:59:59 of day MaxDay
MaxWall == (MaxDay + 1) * SecondsPerDay - 1

\* datetime.fromisoformat(text.replace("Z", "+00:00"))
fromisoformat(text) ==
    LET replaced == IF text.tz = "Z" THEN [text EXCEPT !.tz = "+00:00"] ELSE text
    IN  [wall |-> replaced.wall, utcoffset |-> ZoneOffset(replaced.tz)]

\* datetime.isoformat()
isoformat(dt) == [wall |-> dt.wall, tz |-> OffsetZone(dt.utcoffset)]

\* the instant an aware datetime denotes: what <=, - and the sort compare
Instant(dt) == dt.wall - dt.utcoffset

\* datetime.max.replace(tzinfo=timezone.utc)
DatetimeMax == [wall |-> MaxWall, utcoffset |-> 0]

\* a slip: the days are rounded to the nearest day
TimedeltaDays_rounded(delta) == (2 * delta + SecondsPerDay) \div (2 * SecondsPerDay)

\* timedelta.days and timedelta.seconds of a difference of instants: Python
\* normalises a timedelta to 0 <= seconds < 86400, so days is the floor
TimedeltaDays(delta) == delta \div SecondsPerDay
TimedeltaSeconds(delta) == delta % SecondsPerDay

-----------------------------------------------------------------------------
(* calculate_expiration_info: <<expires_dt, time_str, color>> *)

\* the "Format human-readable time" block
TimeStr(d, hours, minutes) ==
    IF d = 0
    THEN IF hours = 0 THEN Str(minutes) \o "m"
                      ELSE Str(hours) \o "h"
    ELSE IF d = 1 THEN "1 day"
                  ELSE Str(d) \o " days"

\* a slip: the thresholds are compared with <=
UrgencyColor_inclusive(d) ==
    IF d <= RedBelowDays THEN "red"
    ELSE IF d <= YellowBelowDays THEN "yellow"
    ELSE "green"

\* the "Determine color based on urgency" block
UrgencyColor(d) ==
    IF d < RedBelowDays THEN "red"
    ELSE IF d < YellowBelowDays THEN "yellow"
    ELSE "green"

calculate_expiration_info(codespace, clock) ==
    LET retention_expires_at == codespace.retention_expires_at
    IN  IF retention_expires_at = None   \* a timestamp text is never the empty string
        THEN <<None, None, "gray">>
        ELSE
          LET expires_dt == fromisoformat(retention_expires_at[1])
              delta == Instant(expires_dt) - clock
              d == TimedeltaDays(delta)
              hours == TimedeltaSeconds(delta) \div SecondsPerHour
              minutes == TimedeltaSeconds(delta) \div SecondsPerMinute
          IN  IF Instant(expires_dt) <= clock
              THEN <<Some(expires_dt), Some("Expired"), "red">>
              ELSE <<Some(expires_dt), Some(TimeStr(d, hours, minutes)), UrgencyColor(d)>>

\* get_state_color
get_state_color(st) ==
    LET state_lower == lower(st)
    IN  IF state_lower = <<"a","v","a","i","l","a","b","l","e">> THEN "green"
        ELSE IF state_lower = <<"s","h","u","t","d","o","w","n">> THEN "yellow"
        ELSE "red"

-----------------------------------------------------------------------------
(* filter_codespaces *)

\* the list comprehension of the repo filter
FilterRepo(list, r) ==
    SelectSeq(list, LAMBDA cs : Contains(lower(r), lower(cs.repository_name)))

\* a slip: the states are compared as they are spelled
FilterState_case_sensitive(list, s) ==
    SelectSeq(list, LAMBDA cs : cs.state = s)

\* the list comprehension of the state filter
FilterState(list, s) ==
    SelectSeq(list, LAMBDA cs : lower(cs.state) = lower(s))

\* a slip: the threshold day itself is left out
FilterDays_strict(list, n, clock) ==
    SelectSeq(list, LAMBDA cs :
        LET expires_dt == calculate_expiration_info(cs, clock)[1]
        IN  /\ expires_dt # None
            /\ TimedeltaDays(Instant(expires_dt[1]) - clock) < n)

\* the loop of the days filter; clock is the reading filter_codespaces takes
FilterDays(list, n, clock) ==
    SelectSeq(list, LAMBDA cs :
        LET expires_dt == calculate_expiration_info(cs, clock)[1]
        IN  /\ expires_dt # None
            /\ TimedeltaDays(Instant(expires_dt[1]) - clock) <= n)

filter_codespaces(list, d, r, s, clock) ==
    LET f1 == IF Truthy(r) THEN FilterRepo(list, r[1]) ELSE list
        f2 == IF Truthy(s) THEN FilterState(f1, s[1]) ELSE f1
        f3 == IF d # None THEN FilterDays(f2, d[1], clock) ELSE f2
    IN  f3

-----------------------------------------------------------------------------
(* the sort of main *)

\* main.sort_key, as the instant the comparison of two keys looks at
sort_key(cs, clock) ==
    LET expires_dt == calculate_expiration_info(cs, clock)[1]
    IN  IF expires_dt = None THEN Instant(DatetimeMax) ELSE Instant(expires_dt[1])

\* list.sort(key=...) is stable: an element goes after every element already
\* placed whose key is not greater
RECURSIVE Insert(_, _, _)
Insert(sorted, cs, clock) ==
    IF sorted = <<>> THEN <<cs>>
    ELSE IF sort_key(cs, clock) < sort_key(Head(sorted), clock)
         THEN <<cs>> \o sorted
         ELSE <<Head(sorted)>> \o Insert(Tail(sorted), cs, clock)

RECURSIVE SortedBy(_, _)
SortedBy(list, clock) ==
    IF list = <<>> THEN <<>>
    ELSE Insert(SortedBy(SubSeq(list, 1, Len(list) - 1), clock), list[Len(list)], clock)

-----------------------------------------------------------------------------
(* The inputs of the model: what the API may answer and what the user may pass *)

Text(wall, tz) == [wall |-> wall, tz |-> tz]

\* the clock when the command starts: 00:00:00 of day 2
NowBase == 2 * SecondsPerDay

Available == <<"A","v","a","i","l","a","b","l","e">>
Shutdown == <<"S","h","u","t","d","o","w","n">>
RepoNames == { <<"w","e","b">>, <<"A","p","i">> }
States == { Available, Shutdown }
DisplayNames == <<"cs1", "cs2", "cs3", "cs4">>

\* retention_expires_at of the records of the main specification: absent, in
\* three days, and the last text of the calendar
MainStamps ==
    { None,
      Some(Text(NowBase + 3 * SecondsPerDay, "Z")),
      Some(Text(MaxWall, "-01:00")) }

\* for the sort: absent, a day ago, in three days (spelled in two zones), and the
\* two last texts of the calendar
SortStamps ==
    { None,
      Some(Text(NowBase - SecondsPerDay, "Z")),
      Some(Text(NowBase + 3 * SecondsPerDay, "Z")),
      Some(Text(NowBase + 3 * SecondsPerDay + SecondsPerHour, "+01:00")),
      Some(Text(MaxWall, "Z")),
      Some(Text(MaxWall, "-01:00")) }

\* for the days filter: absent, expiring as the command starts, and a day later
FilterStamps ==
    { None,
      Some(Text(NowBase, "+00:00")),
      Some(Text(NowBase + SecondsPerDay + SecondsPerHour, "+01:00")) }

\* every day of the calendar, at the hours, minutes and seconds where a label changes
CalcStamps ==
    { Some(Text(d * SecondsPerDay + h * SecondsPerHour + m * SecondsPerMinute + sec, tz)) :
        d \in 0..MaxDay, h \in {0, 1, 23}, m \in {0, 1, 59}, sec \in {0, 59},
        tz \in {"Z", "+01:00"} }

Records(name, repos, states, stamps) ==
    [display_name : {name}, repository_name : repos, state : states,
     retention_expires_at : stamps]

\* the lists of exactly n records, the i-th one named DisplayNames[i]
RECURSIVE ListsOfLen(_, _, _, _)
ListsOfLen(n, repos, states, stamps) ==
    IF n = 0 THEN { <<>> }
    ELSE { Append(l, r) : l \in ListsOfLen(n - 1, repos, states, stamps),
                          r \in Records(DisplayNames[n], repos, states, stamps) }

Lists(lo, hi, repos, states, stamps) ==
    UNION { ListsOfLen(n, repos, states, stamps) : n \in lo..hi }

\* the "codespaces" key of the JSON body of a 200 answer (None: the key is missing)
ApiBodies ==
    {None} \cup { Some(l) : l \in Lists(0, MaxLen, {<<"w","e","b">>}, States, MainStamps) }

\* the statuses raise_for_status turns into an HTTPError
ErrorStatuses == {401, 403, 404, 500}

\* the ways requests.get, raise_for_status and response.json() can end: a decoded
\* body, an HTTPError, or another RequestException (no connection, a timeout, a
\* body that is not JSON)
Outcomes ==
    { [kind |-> "ok", status |-> 200, body |-> b] : b \in ApiBodies }
    \cup { [kind |-> "http_error", status |-> st, body |-> None] : st \in ErrorStatuses }
    \cup { [kind |-> "request_exception", status |-> 0, body |-> None] }

\* the filter options of the main specification: none, --days 3,
\* --state shutdown, --repo WE --state shutdown
MainOptions ==
    { [days |-> None, repo |-> None, state |-> None],
      [days |-> Some(3), repo |-> None, state |-> None],
      [days |-> None, repo |-> None, state |-> Some(<<"s","h","u","t","d","o","w","n">>)],
      [days |-> None, repo |-> Some(<<"W","E">>),
       state |-> Some(<<"s","h","u","t","d","o","w","n">>)] }

Tokens == { None, Some(""), Some("cli-token") }
EnvTokens == { None, Some(""), Some("env-token") }

-----------------------------------------------------------------------------
(* get_github_token: the token returned, or None when it raises typer.Exit(1) *)

\* a slip: the environment is looked at first
get_github_token_env_first(tok, env) ==
    IF Truthy(env) THEN env
    ELSE IF ~Truthy(tok) THEN None
    ELSE tok

\* a slip: with no token anywhere an empty one is returned instead of exiting
get_github_token_anonymous(tok, env) ==
    IF Truthy(tok) THEN tok
    ELSE IF ~Truthy(env) THEN Some("")
    ELSE env

get_github_token(tok, env) ==
    IF Truthy(tok) THEN tok
    ELSE IF ~Truthy(env) THEN None
    ELSE env

-----------------------------------------------------------------------------
(* The renderers *)

\* one pass of the loop of print_codespaces_json over a record
Inject(cs, clock) ==
    LET info == calculate_expiration_info(cs, clock)
    IN  [display_name |-> cs.display_name,
         repository_name |-> cs.repository_name,
         state |-> cs.state,
         retention_expires_at |-> cs.retention_expires_at,
         _expires_in |-> info[2],
         _expires_timestamp |-> IF info[1] # None THEN Some(isoformat(info[1][1])) ELSE None]

\* one row of print_codespaces_table (the columns computed from the fields modelled)
TableRow(cs, clock) ==
    LET info == calculate_expiration_info(cs, clock)
    IN  [display_name |-> cs.display_name,
         repository_name |-> cs.repository_name,
         state_text |-> cs.state,
         state_color |-> get_state_color(cs.state),
         expires_text |-> IF info[2] # None THEN info[2][1] ELSE "Active",
         expires_color |-> info[3]]

\* the records of list a that are (the same objects as) records of list b
Shares(a, b) == \E j \in 1..Len(b) : b[j].display_name = a.display_name

-----------------------------------------------------------------------------
(* main, step by step *)

ClockReadings == { now + dt : dt \in 0..MaxTick }

Exit(code) ==
    /\ exit_code' = Some(code)
    /\ pc' = "exited"

\* github_token = get_github_token(token)
GetToken ==
    /\ pc = "get_token"
    /\ trace' = Append(trace, "resolve")
    /\ LET resolved == get_github_token(token, env_token)
       IN  IF resolved = None
           THEN /\ printed' = Append(printed, [kind |-> "error", text |-> "No GitHub token provided."])
                /\ Exit(1)
                /\ UNCHANGED github_token
           ELSE /\ github_token' = resolved
                /\ pc' = "fetch"
                /\ UNCHANGED <<printed, exit_code>>
    /\ UNCHANGED <<token, env_token, days, repo, state, json_output, now, requests,
                   response, codespaces, filtered_codespaces>>

\* a slip: an HTTP error other than 401 is reported as an empty answer
fetch_codespaces_swallow(outcome) ==
    IF outcome.kind = "http_error" /\ outcome.status = 401
    THEN [raised |-> TRUE, code |-> 1, data |-> None,
          message |-> "Invalid token or insufficient permissions."]
    ELSE IF outcome.kind = "request_exception"
    THEN [raised |-> TRUE, code |-> 1, data |-> None,
          message |-> "Failed to connect to GitHub API"]
    ELSE [raised |-> FALSE, code |-> 0, data |-> outcome.body, message |-> ""]

\* fetch_codespaces, given how the request ends: the JSON body it returns, or
\* the message it prints before it raises typer.Exit(code)
fetch_codespaces(outcome) ==
    IF outcome.kind = "http_error"
    THEN [raised |-> TRUE, code |-> 1, data |-> None,
          message |-> IF outcome.status = 401
                      THEN "Invalid token or insufficient permissions."
                      ELSE "GitHub API error"]
    ELSE IF outcome.kind = "request_exception"
    THEN [raised |-> TRUE, code |-> 1, data |-> None,
          message |-> "Failed to connect to GitHub API"]
    ELSE [raised |-> FALSE, code |-> 0, data |-> outcome.body, message |-> ""]

\* data = fetch_codespaces(github_token); codespaces = data.get("codespaces", [])
Fetch ==
    /\ pc = "fetch"
    /\ trace' = Append(trace, "fetch")
    /\ requests' = requests + 1
    /\ \E outcome \in Outcomes :
          LET result == fetch_codespaces(outcome)
          IN  /\ response' = [kind |-> outcome.kind, status |-> outcome.status]
              /\ IF result.raised
                 THEN /\ printed' = Append(printed, [kind |-> "error", text |-> result.message])
                      /\ Exit(result.code)
                      /\ UNCHANGED codespaces
                 ELSE /\ codespaces' = IF result.data = None THEN <<>> ELSE result.data[1]
                      /\ pc' = "check_empty"
                      /\ UNCHANGED <<printed, exit_code>>
    /\ UNCHANGED <<token, env_token, days, repo, state, json_output, now, github_token,
                   filtered_codespaces>>

\* a slip: the empty list is reported and main goes on
CheckEmpty_no_exit ==
    /\ pc = "check_empty"
    /\ printed' = IF codespaces = <<>>
                  THEN Append(printed, [kind |-> "notice", text |-> "No codespaces found."])
                  ELSE printed
    /\ pc' = "filter"
    /\ UNCHANGED <<token, env_token, days, repo, state, json_output, now, github_token,
                   requests, response, codespaces, filtered_codespaces, trace, exit_code>>

\* if not codespaces: ... raise typer.Exit(0)
CheckEmpty ==
    /\ pc = "check_empty"
    /\ IF codespaces = <<>>
       THEN /\ printed' = Append(printed, [kind |-> "notice", text |-> "No codespaces found."])
            /\ Exit(0)
       ELSE /\ pc' = "filter"
            /\ UNCHANGED <<printed, exit_code>>
    /\ UNCHANGED <<token, env_token, days, repo, state, json_output, now, github_token,
                   requests, response, codespaces, filtered_codespaces, trace>>

\* filtered_codespaces = filter_codespaces(codespaces, days, repo, state)
Filter ==
    /\ pc = "filter"
    /\ trace' = Append(trace, "filter")
    /\ \E t \in ClockReadings :
          /\ now' = IF days # None THEN t ELSE now
          /\ filtered_codespaces' = filter_codespaces(codespaces, days, repo, state, now')
    /\ pc' = "sort"
    /\ UNCHANGED <<token, env_token, days, repo, state, json_output, github_token,
                   requests, response, codespaces, printed, exit_code>>

\* no filter ran: filter_codespaces returned the list it was given, not a copy
Aliased == ~Truthy(repo) /\ ~Truthy(state) /\ days = None

\* filtered_codespaces.sort(key=sort_key)
Sort ==
    /\ pc = "sort"
    /\ trace' = Append(trace, "sort")
    /\ LET sorted == SortedBy(filtered_codespaces, now)
       IN  /\ filtered_codespaces' = sorted
           /\ codespaces' = IF Aliased THEN sorted ELSE codespaces
    /\ pc' = "render"
    /\ UNCHANGED <<token, env_token, days, repo, state, json_output, now, github_token,
                   requests, response, printed, exit_code>>

\* print_codespaces_json(filtered_codespaces), then main returns
RenderJson ==
    /\ pc = "render"
    /\ json_output
    /\ trace' = Append(trace, "render")
    /\ \E t \in ClockReadings :
          /\ now' = t
          /\ filtered_codespaces' =
                [i \in 1..Len(filtered_codespaces) |-> Inject(filtered_codespaces[i], t)]
          /\ codespaces' =
                [i \in 1..Len(codespaces) |->
                    IF Shares(codespaces[i], filtered_codespaces)
                    THEN Inject(codespaces[i], t) ELSE codespaces[i]]
    /\ printed' = Append(printed, [kind |-> "json", items |-> filtered_codespaces'])
    /\ Exit(0)
    /\ UNCHANGED <<token, env_token, days, repo, state, json_output, github_token,
                   requests, response>>

\* print_codespaces_table(filtered_codespaces), then main returns
RenderTable ==
    /\ pc = "render"
    /\ ~json_output
    /\ trace' = Append(trace, "render")
    /\ IF filtered_codespaces = <<>>
       THEN /\ printed' = Append(printed,
                   [kind |-> "notice", text |-> "No codespaces found matching your criteria."])
            /\ UNCHANGED now
       ELSE \E t \in ClockReadings :
            /\ now' = t
            /\ printed' = printed \o
                   << [kind |-> "table",
                       rows |-> [i \in 1..Len(filtered_codespaces) |->
                                    TableRow(filtered_codespaces[i], t)]],
                      [kind |-> "total", count |-> Len(filtered_codespaces)] >>
    /\ Exit(0)
    /\ UNCHANGED <<token, env_token, days, repo, state, json_output, github_token,
                   requests, response, codespaces, filtered_codespaces>>

Next ==
    \/ GetToken
    \/ Fetch
    \/ CheckEmpty
    \/ Filter
    \/ Sort
    \/ RenderJson
    \/ RenderTable

-----------------------------------------------------------------------------
(* The command, from its start *)

Init ==
    /\ pc = "get_token"
    /\ token \in Tokens
    /\ env_token \in EnvTokens
    /\ \E o \in MainOptions : days = o.days /\ repo = o.repo /\ state = o.state
    /\ json_output \in BOOLEAN
    /\ now = NowBase
    /\ github_token = None
    /\ requests = 0
    /\ response = [kind |-> "none", status |-> 0]
    /\ codespaces = <<>>
    /\ filtered_codespaces = <<>>
    /\ printed = <<>>
    /\ exit_code = None
    /\ trace = <<>>

Spec == Init /\ [][Next]_vars

\* the state of main after a fetch that returned the list l
Fetched(l) ==
    /\ token = None
    /\ env_token = Some("env-token")
    /\ github_token = Some("env-token")
    /\ requests = 1
    /\ response = [kind |-> "ok", status |-> 200]
    /\ codespaces = l
    /\ printed = <<>>
    /\ exit_code = None

(* filter_codespaces on its own: main at the filter step, with every kind of
   option and records around the boundaries of each filter *)
InitFilter ==
    /\ pc = "filter"
    /\ \E l \in Lists(1, MaxLen, RepoNames, States, FilterStamps) : Fetched(l)
    /\ days \in { None, Some(-1), Some(0), Some(1) }
    /\ repo \in { None, Some(<<>>), Some(<<"W","E">>) }
    /\ state \in { None, Some(<<>>), Some(<<"S","H","U","T","D","O","W","N">>) }
    /\ json_output = FALSE
    /\ now = NowBase
    /\ filtered_codespaces = <<>>
    /\ trace = <<"resolve", "fetch">>

SpecFilter == InitFilter /\ [][Filter]_vars

(* the sort on its own: main at the sort step, no filter given *)
InitSort ==
    /\ pc = "sort"
    /\ \E l \in Lists(1, MaxSortLen, {<<"w","e","b">>}, {Available}, SortStamps) :
          Fetched(l) /\ filtered_codespaces = l
    /\ days = None
    /\ repo = None
    /\ state = None
    /\ json_output = FALSE
    /\ now = NowBase
    /\ trace = <<"resolve", "fetch", "filter">>

SpecSort == InitSort /\ [][Sort]_vars

(* calculate_expiration_info on its own: main at the render step with one
   record, whose expiration ranges over the calendar *)
InitCalc ==
    /\ pc = "render"
    /\ \E l \in Lists(1, 1, {<<"w","e","b">>}, {Available}, CalcStamps \cup {None}) :
          Fetched(l) /\ filtered_codespaces = l
    /\ days = None
    /\ repo = None
    /\ state = None
    /\ json_output \in BOOLEAN
    /\ now \in { SecondsPerDay, SecondsPerDay + 59 }
    /\ trace = <<"resolve", "fetch", "filter", "sort">>

NextRender == RenderJson \/ RenderTable

SpecCalc == InitCalc /\ [][NextRender]_vars

-----------------------------------------------------------------------------
(* Properties of the command *)

NonEmpty(o) == o # None /\ o[1] # ""

\* no explicit token and no token in the environment
CredentialMissing == ~NonEmpty(token) /\ ~NonEmpty(env_token)

\* get_github_token printed its guidance and raised typer.Exit(1)
FailedAtResolve ==
    /\ pc = "exited"
    /\ exit_code = Some(1)
    /\ trace = <<"resolve">>
    /\ printed = << [kind |-> "error", text |-> "No GitHub token provided."] >>

\* C1: a run ends with exit status 1 if the credential is missing, if the API
\* answers 401 or another error status, or if the transport fails, and with exit
\* status 0 otherwise, the run with zero codespaces included.
C1_ExitStatus ==
    /\ (pc = "exited") <=> (exit_code # None)
    /\ pc = "exited" =>
         /\ CredentialMissing => exit_code = Some(1)
         /\ response.kind = "http_error" /\ response.status = 401 => exit_code = Some(1)
         /\ response.kind = "http_error" /\ response.status # 401 => exit_code = Some(1)
         /\ response.kind = "request_exception" => exit_code = Some(1)
         /\ ~CredentialMissing /\ response.kind = "ok" => exit_code = Some(0)
         /\ response.kind = "ok" /\ codespaces = <<>> => exit_code = Some(0)

C1_Witness ==
    /\ pc = "exited"
    /\ response.kind = "ok"
    /\ codespaces = <<>>
    /\ exit_code = Some(0)

\* C2: no request is sent when no credential can be resolved and exactly one is
\* sent otherwise; after a 401, another HTTP error or a connection failure the run
\* is over with that one request sent.
C2_RequestCount ==
    /\ requests <= 1
    /\ pc = "exited" => requests = IF CredentialMissing THEN 0 ELSE 1
    /\ response.kind \in {"http_error", "request_exception"} =>
            requests = 1 /\ pc = "exited" /\ ~ENABLED Fetch

C2_Witness ==
    /\ pc = "exited"
    /\ response.kind = "http_error"
    /\ response.status = 401
    /\ requests = 1

Order == <<"resolve", "fetch", "filter", "sort", "render">>

C3_Steps ==
    /\ Len(trace) <= Len(Order)
    /\ trace = SubSeq(Order, 1, Len(trace))
    /\ Len(trace) >= 2 => github_token # None /\ ~CredentialMissing
    /\ Len(trace) >= 3 => response.kind = "ok" /\ codespaces # <<>>
    /\ CredentialMissing /\ exit_code # None => trace = <<"resolve">>
    /\ response.kind \in {"http_error", "request_exception"} => trace = <<"resolve", "fetch">>
    /\ response.kind = "ok" /\ codespaces = <<>> => trace = <<"resolve", "fetch">>

\* C3: the steps run in the order resolve, fetch, filter, sort, render; a fatal
\* condition or an empty fetched list ends the run at that step, so filter, sort
\* and render run only after the credential resolved and the fetch returned at
\* least one record; and no step is taken once the exit status is set.
C3_StepOrder == [](C3_Steps) /\ [][exit_code = None]_vars

C3_Witness ==
    /\ pc = "exited"
    /\ trace = Order
    /\ exit_code = Some(0)

\* C10 as stated: the explicit token wins when it is non-empty; the variable's
\* value is returned when the explicit token is absent or empty and the variable
\* is set; the failure happens only when neither is present.
C10_AsStated ==
    Len(trace) >= 1 =>
        /\ NonEmpty(token) => github_token = token
        /\ ~NonEmpty(token) /\ env_token # None => github_token = env_token
        /\ FailedAtResolve <=> (~NonEmpty(token) /\ env_token = None)

\* C10, amended: the explicit token wins when it is non-empty; the variable's
\* value is returned when the explicit token is absent or empty and the variable
\* holds a non-empty value; get_github_token fails, exit 1 after its guidance,
\* exactly when neither holds a non-empty value.
C10_TokenPrecedence ==
    Len(trace) >= 1 =>
        /\ NonEmpty(token) => github_token = token /\ ~FailedAtResolve
        /\ ~NonEmpty(token) /\ NonEmpty(env_token) =>
                github_token = env_token /\ ~FailedAtResolve
        /\ FailedAtResolve <=> (~NonEmpty(token) /\ ~NonEmpty(env_token))
        /\ FailedAtResolve => github_token = None

C10_Witness ==
    /\ token = Some("")
    /\ env_token = Some("env-token")
    /\ github_token = Some("env-token")
    /\ pc = "fetch"

-----------------------------------------------------------------------------
(* Properties of filter_codespaces *)

HasExpiration(cs) == cs.retention_expires_at # None

\* the instant the record's retention_expires_at spells
ExpiresAt(cs) ==
    LET text == cs.retention_expires_at[1] IN text.wall - ZoneOffset(text.tz)

\* the whole days, hours and minutes in a span of seconds: the floor
WholeDays(delta) ==
    CHOOSE q \in -(MaxDay + 3)..(MaxDay + 3) :
        q * SecondsPerDay <= delta /\ delta < (q + 1) * SecondsPerDay
WholeHours(span) == CHOOSE q \in 0..23 : q * 3600 <= span /\ span < (q + 1) * 3600
WholeMinutes(span) == CHOOSE q \in 0..1439 : q * 60 <= span /\ span < (q + 1) * 60

\* sub occurs in s, whatever the case of the letters
CISubstring(sub, s) ==
    \E k \in 0..(Len(s) - Len(sub)) :
        \A j \in 1..Len(sub) : LowerChar(s[k + j]) = LowerChar(sub[j])

\* a and b are the same text, whatever the case of the letters
CIEqual(a, b) ==
    Len(a) = Len(b) /\ \A j \in 1..Len(a) : LowerChar(a[j]) = LowerChar(b[j])

NonEmptySeq(o) == o # None /\ o[1] # <<>>

Kept(cs) == \E i \in 1..Len(filtered_codespaces) : filtered_codespaces[i] = cs

WithinDays(cs, n) == HasExpiration(cs) /\ WholeDays(ExpiresAt(cs) - now) <= n

\* the predicates of the filters in use, the repo filter if useRepo and the state
\* filter if useState
Satisfies(cs, useRepo, useState) ==
    /\ useRepo => CISubstring(repo[1], cs.repository_name)
    /\ useState => CIEqual(cs.state, state[1])
    /\ days # None => WithinDays(cs, days[1])

\* C4: with the days filter at N, a record (that passes the other filters) is
\* kept if and only if it has an expiration and the whole-day count of
\* expires_at - now is <= N; a record with no expiration is never kept, and an
\* already expired one is kept for every N >= 0.
C4_DaysFilter ==
    pc = "sort" /\ days # None =>
        \A i \in 1..Len(codespaces) :
            LET cs == codespaces[i]
                passes == /\ NonEmptySeq(repo) => CISubstring(repo[1], cs.repository_name)
                          /\ NonEmptySeq(state) => CIEqual(cs.state, state[1])
            IN  /\ passes => (Kept(cs) <=> WithinDays(cs, days[1]))
                /\ ~HasExpiration(cs) => ~Kept(cs)
                /\ passes /\ HasExpiration(cs) /\ ExpiresAt(cs) <= now /\ days[1] >= 0
                        => Kept(cs)

C4_Witness ==
    /\ pc = "sort"
    /\ days = Some(0)
    /\ Len(codespaces) = 2
    /\ Len(filtered_codespaces) = 1
    /\ HasExpiration(codespaces[2]) /\ ExpiresAt(codespaces[2]) > now
    /\ ExpiresAt(filtered_codespaces[1]) < now

\* the three filters, one at a time
ApplyOne(list, which) ==
    CASE which = "repo" -> filter_codespaces(list, None, repo, None, now)
      [] which = "state" -> filter_codespaces(list, None, None, state, now)
      [] which = "days" -> filter_codespaces(list, days, None, None, now)

FilterOrders ==
    { <<"repo", "state", "days">>, <<"repo", "days", "state">>,
      <<"state", "repo", "days">>, <<"state", "days", "repo">>,
      <<"days", "repo", "state">>, <<"days", "state", "repo">> }

\* repo then state gives what state then repo gives, and every order of the three
\* filters gives what filter_codespaces returned
OrderIndependent ==
    /\ ApplyOne(ApplyOne(codespaces, "repo"), "state")
         = ApplyOne(ApplyOne(codespaces, "state"), "repo")
    /\ \A o \in FilterOrders :
         ApplyOne(ApplyOne(ApplyOne(codespaces, o[1]), o[2]), o[3]) = filtered_codespaces

\* C8 as stated: a filter is in use as soon as its option is given, and
\* filter_codespaces returns exactly the records that satisfy every predicate in
\* use, in whatever order the filters are applied.
C8_AsStated ==
    pc = "sort" =>
        /\ filtered_codespaces =
             SelectSeq(codespaces, LAMBDA cs : Satisfies(cs, repo # None, state # None))
        /\ OrderIndependent

\* C8, amended: the repo and the state filter are in use only when the option
\* is given a non-empty value (the days filter whenever it is given); with that,
\* filter_codespaces returns exactly the records that satisfy every predicate in
\* use, repo then state gives what state then repo gives, and no order of the
\* filters changes the result.
C8_Composition ==
    pc = "sort" =>
        /\ filtered_codespaces =
             SelectSeq(codespaces,
                       LAMBDA cs : Satisfies(cs, NonEmptySeq(repo), NonEmptySeq(state)))
        /\ OrderIndependent

C8_Witness ==
    /\ pc = "sort"
    /\ NonEmptySeq(repo)
    /\ NonEmptySeq(state)
    /\ days # None
    /\ Len(codespaces) = 2
    /\ Len(filtered_codespaces) = 1

-----------------------------------------------------------------------------
(* Properties of calculate_expiration_info, on the one record of SpecCalc *)

Rec == codespaces[1]
Delta == ExpiresAt(Rec) - now
Remainder == Delta - WholeDays(Delta) * SecondsPerDay

ClaimedLabel ==
    IF ~HasExpiration(Rec) THEN None
    ELSE IF Delta <= 0 THEN Some("Expired")
    ELSE LET dd == WholeDays(Delta)
             hh == WholeHours(Remainder)
         IN  Some(IF dd = 0 /\ hh = 0 THEN ToString(WholeMinutes(Remainder)) \o "m"
                  ELSE IF dd = 0 THEN ToString(hh) \o "h"
                  ELSE IF dd = 1 THEN "1 day"
                  ELSE ToString(dd) \o " days")

ClaimedUrgency ==
    IF ~HasExpiration(Rec) THEN "gray"
    ELSE IF Delta <= 0 \/ WholeDays(Delta) < 7 THEN "red"
    ELSE IF WholeDays(Delta) <= 13 THEN "yellow"
    ELSE "green"

\* what the JSON renderer and the table renderer printed for the record
JsonItem == printed[1].items[1]
Row == printed[1].rows[1]

\* C5: calculate_expiration_info gives no label to a record without
\* retention_expires_at, "Expired" when expires_at <= now, and otherwise the label
\* of the floor decomposition of expires_at - now: "<minutes>m" for no whole day
\* and no whole hour, "<hours>h" for no whole day, "1 day", "<days> days"; 23h59m
\* gives "23h".  The renderers print that label.
C5_Label ==
    /\ calculate_expiration_info(Rec, now)[2] = ClaimedLabel
    /\ HasExpiration(Rec) /\ Delta = 23 * 3600 + 59 * 60
            => calculate_expiration_info(Rec, now)[2] = Some("23h")
    /\ pc = "exited" /\ json_output => JsonItem._expires_in = ClaimedLabel
    /\ pc = "exited" /\ ~json_output =>
            Row.expires_text = IF ClaimedLabel = None THEN "Active" ELSE ClaimedLabel[1]

C5_Witness ==
    /\ pc = "exited"
    /\ json_output
    /\ HasExpiration(Rec)
    /\ Delta = 23 * 3600 + 59 * 60
    /\ JsonItem._expires_in = Some("23h")

\* C6: the urgency is gray exactly when the record has no expiration, red when
\* it is expired or expires in fewer than 7 whole days, yellow for 7 to 13 whole
\* days and green for 14 or more.  The table prints the label in that colour.
C6_Urgency ==
    /\ calculate_expiration_info(Rec, now)[3] = ClaimedUrgency
    /\ calculate_expiration_info(Rec, now)[3] = "gray" <=> ~HasExpiration(Rec)
    /\ HasExpiration(Rec) /\ Delta > 0 =>
         /\ WholeDays(Delta) = 6 => calculate_expiration_info(Rec, now)[3] = "red"
         /\ WholeDays(Delta) = 7 => calculate_expiration_info(Rec, now)[3] = "yellow"
         /\ WholeDays(Delta) = 13 => calculate_expiration_info(Rec, now)[3] = "yellow"
         /\ WholeDays(Delta) = 14 => calculate_expiration_info(Rec, now)[3] = "green"
    /\ pc = "exited" /\ ~json_output => Row.expires_color = ClaimedUrgency

C6_Witness ==
    /\ pc = "exited"
    /\ ~json_output
    /\ HasExpiration(Rec)
    /\ WholeDays(Delta) = 13
    /\ Row.expires_color = "yellow"

-----------------------------------------------------------------------------
(* Properties of the sort and of the JSON output *)

\* where the record cs stands in list (display names are unique in a list)
Pos(list, cs) == CHOOSE i \in 1..Len(list) : list[i].display_name = cs.display_name

SameExpiration(a, b) ==
    \/ ~HasExpiration(a) /\ ~HasExpiration(b)
    \/ HasExpiration(a) /\ HasExpiration(b) /\ ExpiresAt(a) = ExpiresAt(b)

\* ascending by expiration, the records with no expiration after all the others
InClaimedOrder(list) ==
    \A i, j \in 1..Len(list) :
        i < j =>
            /\ HasExpiration(list[i]) /\ HasExpiration(list[j])
                    => ExpiresAt(list[i]) <= ExpiresAt(list[j])
            /\ ~(~HasExpiration(list[i]) /\ HasExpiration(list[j]))

\* output is a permutation of input, in the claimed order, ties in input order
SortedAsClaimed(input, output) ==
    /\ Len(output) = Len(input)
    /\ \A i \in 1..Len(input) : \E j \in 1..Len(output) : output[j] = input[i]
    /\ InClaimedOrder(output)
    /\ \A i, j \in 1..Len(output) :
            i < j /\ SameExpiration(output[i], output[j])
                => Pos(input, output[i]) < Pos(input, output[j])

\* every expiration of the list is before datetime.max in UTC, the key of the
\* records with no expiration
BelowSentinel(list) ==
    \A i \in 1..Len(list) :
        HasExpiration(list[i]) => ExpiresAt(list[i]) < Instant(DatetimeMax)

\* C7: the sort leaves a permutation of the filter result, ascending by
\* expiration, every record with no expiration after every record that has one,
\* records of equal (or no) expiration in their input order.
C7_AsStated ==
    [][pc = "sort" => SortedAsClaimed(filtered_codespaces, filtered_codespaces')]_vars

\* what the sort does guarantee: the same, for lists whose expirations are all
\* before the sentinel
SortBelowSentinel ==
    [][pc = "sort" /\ BelowSentinel(filtered_codespaces)
          => SortedAsClaimed(filtered_codespaces, filtered_codespaces')]_vars

\* the JSON renderer printed every record it was handed, in order, each with the
\* label and the timestamp of calculate_expiration_info, both null for a record
\* with no expiration
Injected(list, items, clock) ==
    /\ Len(items) = Len(list)
    /\ \A i \in 1..Len(list) :
         /\ items[i].display_name = list[i].display_name
         /\ items[i].repository_name = list[i].repository_name
         /\ items[i].state = list[i].state
         /\ items[i].retention_expires_at = list[i].retention_expires_at
         /\ items[i]._expires_in = calculate_expiration_info(list[i], clock)[2]
         /\ HasExpiration(list[i]) =>
                /\ items[i]._expires_in # None
                /\ items[i]._expires_timestamp # None
                /\ items[i]._expires_timestamp[1].wall - ZoneOffset(items[i]._expires_timestamp[1].tz)
                       = ExpiresAt(list[i])
         /\ ~HasExpiration(list[i]) =>
                items[i]._expires_in = None /\ items[i]._expires_timestamp = None

\* no filter given, two records fetched, one of them with an expiration
OneOfEach ==
    /\ days = None /\ repo = None /\ state = None
    /\ Len(codespaces) = 2
    /\ HasExpiration(codespaces[1]) # HasExpiration(codespaces[2])

\* C9: in JSON mode every record that passed the filters is printed, in sorted
\* order, with the two injected fields of the Expiration Calculator, both null
\* when the record has no expiration; with no filters and one expiring plus one
\* non-expiring record both are printed, the expiring one first.
C9_AsStated ==
    [][pc = "render" /\ json_output =>
          LET items == printed'[Len(printed')].items
          IN  /\ Injected(filtered_codespaces, items, now')
              /\ InClaimedOrder(items)
              /\ OneOfEach =>
                    Len(items) = 2 /\ HasExpiration(items[1]) /\ ~HasExpiration(items[2])
      ]_vars

\* what the JSON output does guarantee: the same, when every expiration is before
\* the sentinel
JsonBelowSentinel ==
    [][pc = "render" /\ json_output /\ BelowSentinel(filtered_codespaces) =>
          LET items == printed'[Len(printed')].items
          IN  /\ Injected(filtered_codespaces, items, now')
              /\ InClaimedOrder(items)
              /\ OneOfEach =>
                    Len(items) = 2 /\ HasExpiration(items[1]) /\ ~HasExpiration(items[2])
      ]_vars

=============================================================================
